---- MODULE Spec2Model ----
(***************************************************************************)
(* Model of the rotary knob widget (src/app/SVGKnob.cpp) and of the scalar *)
(* and geometry helpers it rests on (include/util.hpp).                    *)
(*                                                                         *)
(* A C++ float is modelled as an exact fraction n/d.  d = 0 stands for the *)
(* non-finite results of a division by zero: 0/0 is NaN, +-1/0 is +-inf.   *)
(* Rounding and signed zeros are not modelled.  Angles are counted in      *)
(* quarter turns (one unit = pi/2 radians), so that the sine and cosine of *)
(* every angle the model builds are exact.                                 *)
(***************************************************************************)
EXTENDS Integers, Sequences, FiniteSets, TLC

VARIABLES
    value,      \* Knob::value
    dirty,      \* FramebufferWidget::dirty of the knob
    box,        \* the knob's own box (a Rect)
    twBox,      \* tw->box
    swBox,      \* sw->box
    svg,        \* sw->svg: the adopted graphic, or NoSVG
    tw,         \* tw->transform, as the calls composed since identity()
    cache,      \* the framebuffer's cached raster: what was rendered, or Empty
    last,       \* the handler that ran last and the calls it made
    since,      \* steps, rebuilds and renders since the last value change
    calc        \* the helper under evaluation: its inputs, then its result

vars == <<value, dirty, box, twBox, swBox, svg, tw, cache, last, since, calc>>

knobVars == <<value, dirty, box, twBox, swBox, svg, tw, cache, last, since>>

----------------------------------------------------------------------------
(* Bounds of the model *)

MaxValue == 2
MaxSize == 2
MaxSteps == 3
MaxCoord == 2
MaxBase == 4
MaxA == 5

----------------------------------------------------------------------------
(* float arithmetic *)

Abs(i) == IF i < 0 THEN -i ELSE i

Sgn(i) == IF i < 0 THEN -1 ELSE IF i > 0 THEN 1 ELSE 0

RECURSIVE Gcd(_, _)
Gcd(a, b) == IF b = 0 THEN a ELSE Gcd(b, a % b)

Float(n, d) ==
    IF d = 0 THEN [n |-> Sgn(n), d |-> 0]
    ELSE LET g == Gcd(Abs(n), Abs(d))
         IN  [n |-> (Sgn(d) * n) \div g, d |-> Abs(d) \div g]

F(i) == [n |-> i, d |-> 1]

NaN == [n |-> 0, d |-> 0]

FAdd(a, b) == Float(a.n * b.d + b.n * a.d, a.d * b.d)

FNeg(a) == [n |-> -a.n, d |-> a.d]

FSub(a, b) == FAdd(a, FNeg(b))

FMul(a, b) == Float(a.n * b.n, a.d * b.d)

FDiv(a, b) == Float(a.n * b.d, a.d * b.n)

\* the place of a among -inf, the finite numbers and +inf
Rank(a) == IF a.d = 0 THEN a.n ELSE 0

\* a < b; false when either side is NaN
FLt(a, b) ==
    /\ a # NaN
    /\ b # NaN
    /\ IF a.d # 0 /\ b.d # 0 THEN a.n * b.d < b.n * a.d ELSE Rank(a) < Rank(b)

FGt(a, b) == FLt(b, a)

FLe(a, b) == a # NaN /\ b # NaN /\ (a = b \/ FLt(a, b))

----------------------------------------------------------------------------
(* include/util.hpp: scalar helpers *)

clampfNoMin(x, min, max) == IF FGt(x, max) THEN max ELSE x

clampf(x, min, max) ==
    LET x1 == IF FGt(x, max) THEN max ELSE x
    IN  IF FLt(x1, min) THEN min ELSE x1

mapf(x, xMin, xMax, yMin, yMax) ==
    FAdd(yMin, FMul(FDiv(FSub(x, xMin), FSub(xMax, xMin)), FSub(yMax, yMin)))

\* C's % on int: the remainder of the division that truncates toward zero
CRem(a, b) == Sgn(a) * (Abs(a) % Abs(b))

eucModNoFix(a, base) == CRem(a, base)

eucMod(a, base) ==
    LET mod == CRem(a, base)
    IN  IF mod < 0 THEN mod + base ELSE mod

----------------------------------------------------------------------------
(* include/util.hpp: Vec and Rect *)

Vec(x, y) == [x |-> x, y |-> y]

VecZero == Vec(F(0), F(0))

VecNeg(a) == Vec(FNeg(a.x), FNeg(a.y))

VecPlus(a, b) == Vec(FAdd(a.x, b.x), FAdd(a.y, b.y))

VecMult(a, s) == Vec(FMul(a.x, s), FMul(a.y, s))

Rect(pos, size) == [pos |-> pos, size |-> size]

contains(r, v) ==
    /\ FLe(r.pos.x, v.x) /\ FLt(v.x, FAdd(r.pos.x, r.size.x))
    /\ FLe(r.pos.y, v.y) /\ FLt(v.y, FAdd(r.pos.y, r.size.y))

intersectsClosed(a, r) ==
    /\ FLe(r.pos.x, FAdd(a.pos.x, a.size.x)) /\ FLe(a.pos.x, FAdd(r.pos.x, r.size.x))
    /\ FLe(r.pos.y, FAdd(a.pos.y, a.size.y)) /\ FLe(a.pos.y, FAdd(r.pos.y, r.size.y))

intersects(a, r) ==
    /\ FGt(FAdd(a.pos.x, a.size.x), r.pos.x) /\ FGt(FAdd(r.pos.x, r.size.x), a.pos.x)
    /\ FGt(FAdd(a.pos.y, a.size.y), r.pos.y) /\ FGt(FAdd(r.pos.y, r.size.y), a.pos.y)

getCenter(r) == VecPlus(r.pos, VecMult(r.size, Float(1, 2)))

RectClampNoSize(r, bound) ==
    Rect(Vec(clampf(r.pos.x, bound.pos.x, FAdd(bound.pos.x, bound.size.x)),
             clampf(r.pos.y, bound.pos.y, FAdd(bound.pos.y, bound.size.y))),
         r.size)

RectClamp(r, bound) ==
    Rect(Vec(clampf(r.pos.x, bound.pos.x,
                    FSub(FAdd(bound.pos.x, bound.size.x), r.size.x)),
             clampf(r.pos.y, bound.pos.y,
                    FSub(FAdd(bound.pos.y, bound.size.y), r.size.y))),
         r.size)

----------------------------------------------------------------------------
(* The knob's configuration: value range and angle range (quarter turns) *)

minValue == F(0)

maxValue == F(MaxValue)

minAngle == F(-1)

maxAngle == F(MaxValue - 1)

Values == {F(i) : i \in 0..MaxValue}

\* the sizes the host lays a knob out in
BoxSizes == {Vec(F(MaxSize), F(h)) : h \in 1..MaxSize}

\* the graphics a knob can be given: each has a natural size
Graphics == {[id |-> w, size |-> Vec(F(w), F(MaxSize))] : w \in 1..MaxSize}

NoSVG == [id |-> 0, size |-> VecZero]

Empty == [svg |-> 0, transform |-> <<>>]

----------------------------------------------------------------------------
(* TransformWidget: the affine transform accumulator, kept as the calls    *)
(* composed onto the identity.  Each call premultiplies: a point goes      *)
(* through the call made last first.                                       *)

VecDivVec(a, b) == Vec(FDiv(a.x, b.x), FDiv(a.y, b.y))

TwCall(t, c) == IF c.op = "identity" THEN <<>> ELSE Append(t, c)

RECURSIVE TwRun(_, _)
TwRun(t, calls) ==
    IF calls = <<>> THEN t ELSE TwRun(TwCall(t, Head(calls)), Tail(calls))

CosQ(a) == CASE a.n % 4 = 0 -> F(1) [] a.n % 4 = 1 -> F(0)
             [] a.n % 4 = 2 -> F(-1) [] a.n % 4 = 3 -> F(0)

SinQ(a) == CASE a.n % 4 = 0 -> F(0) [] a.n % 4 = 1 -> F(1)
             [] a.n % 4 = 2 -> F(0) [] a.n % 4 = 3 -> F(-1)

\* one call's transform applied to the point p
TwOpPoint(c, p) ==
    CASE c.op = "scale" -> Vec(FMul(p.x, c.v.x), FMul(p.y, c.v.y))
      [] c.op = "translate" -> VecPlus(p, c.v)
      [] c.op = "rotate" ->
            Vec(FSub(FMul(CosQ(c.a), p.x), FMul(SinQ(c.a), p.y)),
                FAdd(FMul(SinQ(c.a), p.x), FMul(CosQ(c.a), p.y)))

\* the accumulated transform applied to the point p
RECURSIVE TwPoint(_, _)
TwPoint(t, p) ==
    IF t = <<>> THEN p
    ELSE TwPoint(SubSeq(t, 1, Len(t) - 1), TwOpPoint(t[Len(t)], p))

----------------------------------------------------------------------------
(* FramebufferWidget: the cached render node *)

HasArea(b) == FGt(b.size.x, F(0)) /\ FGt(b.size.y, F(0))

\* the child's render operation: the graphic drawn through the transform
Render(g, t) == [svg |-> g.id, transform |-> t]

FbStep(d, b, c, picture) ==
    IF ~d THEN [dirty |-> FALSE, cache |-> c, rendered |-> FALSE]
    ELSE IF HasArea(b) THEN [dirty |-> FALSE, cache |-> picture, rendered |-> TRUE]
    ELSE [dirty |-> TRUE, cache |-> Empty, rendered |-> FALSE]

FbStepCall == [op |-> "FramebufferWidget::step"]

----------------------------------------------------------------------------
(* src/app/SVGKnob.cpp *)

rescalef(x, xMin, xMax, yMin, yMax) == mapf(x, xMin, xMax, yMin, yMax)

RebuildRotateFirst(v, b, sb) ==
    LET angle == rescalef(v, minValue, maxValue, minAngle, maxAngle)
        center == getCenter(sb)
    IN  << [op |-> "identity"],
           [op |-> "rotate", a |-> angle],
           [op |-> "scale", v |-> VecDivVec(b.size, sb.size)],
           [op |-> "translate", v |-> center],
           [op |-> "translate", v |-> VecNeg(center)] >>

RebuildNoNeg(v, b, sb) ==
    LET angle == rescalef(v, minValue, maxValue, minAngle, maxAngle)
        center == getCenter(sb)
    IN  << [op |-> "identity"],
           [op |-> "scale", v |-> VecDivVec(b.size, sb.size)],
           [op |-> "translate", v |-> center],
           [op |-> "rotate", a |-> angle],
           [op |-> "translate", v |-> center] >>

\* the calls step() makes on tw when the knob is dirty
Rebuild(v, b, sb) ==
    LET angle == rescalef(v, minValue, maxValue, minAngle, maxAngle)
        center == getCenter(sb)
    IN  << [op |-> "identity"],
           [op |-> "scale", v |-> VecDivVec(b.size, sb.size)],
           [op |-> "translate", v |-> center],
           [op |-> "rotate", a |-> angle],
           [op |-> "translate", v |-> VecNeg(center)] >>

\* the bookkeeping of one step(): did it rebuild, did it render
Count(rebuilt, rendered) ==
    [since EXCEPT !.steps = @ + 1,
                  !.rebuilds = @ + (IF rebuilt THEN 1 ELSE 0),
                  !.renders = @ + (IF rendered THEN 1 ELSE 0),
                  !.skips = @ + (IF rebuilt /\ ~rendered THEN 1 ELSE 0)]

StepMarksDirty ==
    /\ since.steps < MaxSteps
    /\ LET calls == IF dirty THEN Rebuild(value, box, swBox) ELSE <<>>
           tw1 == TwRun(tw, calls)
           fb == FbStep(dirty, box, cache, Render(svg, tw1))
       IN  /\ tw' = tw1
           /\ dirty' = TRUE
           /\ cache' = fb.cache
           /\ last' = [op |-> "step", calls |-> Append(calls, FbStepCall),
                       wasDirty |-> dirty]
           /\ since' = Count(dirty, fb.rendered)
    /\ UNCHANGED <<value, box, twBox, swBox, svg, calc>>

Step ==
    /\ since.steps < MaxSteps
    /\ LET calls == IF dirty THEN Rebuild(value, box, swBox) ELSE <<>>
           tw1 == TwRun(tw, calls)
           fb == FbStep(dirty, box, cache, Render(svg, tw1))
       IN  /\ tw' = tw1
           /\ dirty' = fb.dirty
           /\ cache' = fb.cache
           /\ last' = [op |-> "step", calls |-> Append(calls, FbStepCall),
                       wasDirty |-> dirty]
           /\ since' = Count(dirty, fb.rendered)
    /\ UNCHANGED <<value, box, twBox, swBox, svg, calc>>

Fresh == [steps |-> 0, rebuilds |-> 0, renders |-> 0, skips |-> 0, changed |-> TRUE]

onChangeKeepsDirty ==
    /\ dirty' = dirty
    /\ since' = Fresh

onChange ==
    /\ dirty' = TRUE
    /\ since' = Fresh

OnChange ==
    /\ onChange
    /\ last' = [op |-> "onChange", calls |-> <<>>, wasDirty |-> dirty]
    /\ UNCHANGED <<value, box, twBox, swBox, svg, tw, cache, calc>>

\* the owner of the parameter assigns it and notifies the knob
SetValue(v) ==
    /\ value' = v
    /\ onChange
    /\ last' = [op |-> "setValue", calls |-> <<>>, wasDirty |-> dirty]
    /\ UNCHANGED <<box, twBox, swBox, svg, tw, cache, calc>>

\* SVGWidget::wrap: the widget takes the natural size of its graphic
wrap(b, g) == [b EXCEPT !.size = g.size]

setSVGKeepsBox(g) ==
    /\ svg' = g
    /\ swBox' = wrap(swBox, g)
    /\ twBox' = [twBox EXCEPT !.size = swBox'.size]
    /\ box' = box
    /\ last' = [op |-> "setSVG", calls |-> <<>>, wasDirty |-> dirty]
    /\ UNCHANGED <<value, dirty, tw, cache, since, calc>>

setSVG(g) ==
    /\ svg' = g
    /\ swBox' = wrap(swBox, g)
    /\ twBox' = [twBox EXCEPT !.size = swBox'.size]
    /\ box' = [box EXCEPT !.size = swBox'.size]
    /\ last' = [op |-> "setSVG", calls |-> <<>>, wasDirty |-> dirty]
    /\ UNCHANGED <<value, dirty, tw, cache, since, calc>>

\* the host lays the knob out in a box of another size
Resize(s) ==
    /\ box' = [box EXCEPT !.size = s]
    /\ last' = [op |-> "resize", calls |-> <<>>, wasDirty |-> dirty]
    /\ UNCHANGED <<value, dirty, twBox, swBox, svg, tw, cache, since, calc>>

\* a knob as constructed: no graphic yet, every box empty; the framebuffer's
\* dirty flag starts as its own declaration sets it, either way here
KnobInit ==
    /\ value = F(0)
    /\ dirty \in BOOLEAN
    /\ box = Rect(VecZero, VecZero)
    /\ twBox = Rect(VecZero, VecZero)
    /\ swBox = Rect(VecZero, VecZero)
    /\ svg = NoSVG
    /\ tw = <<>>
    /\ cache = Empty
    /\ last = [op |-> "new", calls |-> <<>>, wasDirty |-> FALSE]
    /\ since = [steps |-> 0, rebuilds |-> 0, renders |-> 0, skips |-> 0,
                changed |-> FALSE]

Init ==
    /\ KnobInit
    /\ calc = [op |-> "none"]

Next ==
    \/ \E g \in Graphics : setSVG(g)
    \/ Step
    \/ OnChange
    \/ \E v \in Values : SetValue(v)
    \/ \E s \in BoxSizes : Resize(s)

Spec == Init /\ [][Next]_vars

----------------------------------------------------------------------------
(* The helpers of util.hpp, each applied to inputs drawn from bounded sets *)

Coords == {F(i) : i \in -MaxCoord..MaxCoord}

Ints == -MaxA..MaxA

Bases == 1..MaxBase

PosCoords == {F(i) : i \in -1..MaxCoord}

Dims == {F(i) : i \in 0..MaxCoord}

\* the rectangles clamped and tested: any position, any non-negative size
RectsA == {Rect(Vec(px, py), Vec(w, h)) : px \in PosCoords, py \in PosCoords,
                                          w \in Dims, h \in Dims}

\* the bounds they are clamped to and tested against
RectsB == {Rect(Vec(F(px), F(py)), Vec(w, h)) : px \in 0..1, py \in 0..1,
                                                w \in Dims, h \in Dims}

UtilInputs ==
    {[op |-> "clampf", pc |-> "in", x |-> x, min |-> lo, max |-> hi] :
        x \in Coords, lo \in Coords, hi \in Coords}
    \cup {[op |-> "eucMod", pc |-> "in", a |-> a, base |-> b] :
        a \in Ints, b \in Bases}
    \cup {[op |-> "rect", pc |-> "in", r |-> a, bound |-> b] :
        a \in RectsA, b \in RectsB}

DoClampf ==
    /\ calc.op = "clampf" /\ calc.pc = "in"
    /\ calc' = [calc EXCEPT !.pc = "out"] @@ ("out" :> clampf(calc.x, calc.min, calc.max))
    /\ UNCHANGED knobVars

DoEucMod ==
    /\ calc.op = "eucMod" /\ calc.pc = "in"
    /\ calc' = [calc EXCEPT !.pc = "out"] @@ ("out" :> eucMod(calc.a, calc.base))
    /\ UNCHANGED knobVars

DoRectClamp ==
    /\ calc.op = "rect" /\ calc.pc = "in"
    /\ calc' = [calc EXCEPT !.pc = "clamp"] @@ ("out" :> RectClamp(calc.r, calc.bound))
    /\ UNCHANGED knobVars

DoIntersects ==
    /\ calc.op = "rect" /\ calc.pc = "in"
    /\ calc' = [calc EXCEPT !.pc = "intersects"] @@ ("out" :> intersects(calc.r, calc.bound))
    /\ UNCHANGED knobVars

InitUtil ==
    /\ KnobInit
    /\ calc \in UtilInputs

NextUtil ==
    \/ DoClampf
    \/ DoEucMod
    \/ DoRectClamp
    \/ DoIntersects

SpecUtil == InitUtil /\ [][NextUtil]_vars

----------------------------------------------------------------------------
(* The claims about the knob, checked under Spec *)

ValueChanged == last.op \in {"onChange", "setValue"}

\* C1: when step() runs right after step(), with no value change between
\* the two, the second one does not render the child: the count of renders
\* and the cached raster are what the first step() left.
C1_SecondStepReusesCache ==
    [][last.op = "step" /\ last'.op = "step"
        => since'.renders = since.renders /\ cache' = cache]_vars

C1_Witness ==
    /\ last.op = "step"
    /\ ~last.wasDirty
    /\ since.changed
    /\ since.steps = 2
    /\ since.renders = 1

\* C2, as stated: every value change leaves dirty set, and once a value
\* change has been followed by at least one step(), the transform has been
\* rebuilt exactly once and the child rendered exactly once.
C2_ExactlyOneCycle ==
    /\ ValueChanged => dirty
    /\ since.changed /\ since.steps >= 1
        => since.rebuilds = 1 /\ since.renders = 1

\* C2, amended: every value change leaves dirty set, and once a value change
\* has been followed by at least one step(), none of which skipped the
\* render for want of a box with positive area, the transform has been
\* rebuilt exactly once and the child rendered exactly once.
C2_ExactlyOneCycleWithArea ==
    /\ ValueChanged => dirty
    /\ since.changed /\ since.steps >= 1 /\ since.skips = 0
        => since.rebuilds = 1 /\ since.renders = 1

C2_Witness ==
    /\ last.op = "step"
    /\ since.changed
    /\ since.steps = MaxSteps
    /\ since.skips = 0
    /\ since.rebuilds = 1
    /\ since.renders = 1

\* the angle of the rotation composed into the transform t
AngleOf(t) == t[CHOOSE i \in 1..Len(t) : t[i].op = "rotate"].a

\* C3: after any step() that leaves a raster to show, the knob is clean and
\* the raster was rendered through a transform whose rotation is the angle
\* mapped from the current value: no stale raster stands for a changed value.
C3_NoStaleCache ==
    last.op = "step" /\ cache # Empty
        => /\ ~dirty
           /\ AngleOf(cache.transform)
                = mapf(value, minValue, maxValue, minAngle, maxAngle)

C3_Witness ==
    /\ last.op = "step"
    /\ last.wasDirty
    /\ since.changed
    /\ cache # Empty
    /\ value # F(0)

\* C4: a step() that finds the knob dirty makes exactly these calls, in this
\* order: identity, scale(box size / child size), translate(center),
\* rotate(map(value)), translate(-center), and then FramebufferWidget::step;
\* a step() that finds it clean makes only the last one.
C4_RebuildOrder ==
    last.op = "step" =>
        LET center == Vec(FAdd(swBox.pos.x, FDiv(swBox.size.x, F(2))),
                          FAdd(swBox.pos.y, FDiv(swBox.size.y, F(2))))
            angle == mapf(value, minValue, maxValue, minAngle, maxAngle)
        IN  IF last.wasDirty
            THEN last.calls =
                   << [op |-> "identity"],
                      [op |-> "scale", v |-> Vec(FDiv(box.size.x, swBox.size.x),
                                                 FDiv(box.size.y, swBox.size.y))],
                      [op |-> "translate", v |-> center],
                      [op |-> "rotate", a |-> angle],
                      [op |-> "translate", v |-> Vec(FNeg(center.x), FNeg(center.y))],
                      [op |-> "FramebufferWidget::step"] >>
            ELSE last.calls = << [op |-> "FramebufferWidget::step"] >>

C4_Witness ==
    /\ last.op = "step"
    /\ last.wasDirty
    /\ svg # NoSVG
    /\ box.size # swBox.size
    /\ value = F(MaxValue)

\* C5: the transform a step() builds sends the center of the child's natural
\* box to the point the scale alone sends it to, whatever the angle and the
\* size of the knob's box: the rotation keeps the child's center in place.
C5_CenterFixed ==
    last.op = "step" /\ last.wasDirty /\ svg # NoSVG =>
        LET center == Vec(FDiv(swBox.size.x, F(2)), FDiv(swBox.size.y, F(2)))
            scaleOnly == << [op |-> "scale",
                             v |-> Vec(FDiv(box.size.x, swBox.size.x),
                                       FDiv(box.size.y, swBox.size.y))] >>
        IN  TwPoint(tw, center) = TwPoint(scaleOnly, center)

C5_Witness ==
    /\ last.op = "step"
    /\ last.wasDirty
    /\ svg # NoSVG
    /\ box.size.y # swBox.size.y
    /\ AngleOf(tw) = F(1)

\* C6: setSVG leaves the intermediate widget's box and the knob's own box at
\* the natural size of the graphic, and no step(), onChange or value change
\* alters the knob's box.
C6_BoxIsNaturalSize ==
    [][/\ last'.op = "setSVG"
            => twBox'.size = svg'.size /\ box'.size = svg'.size
       /\ last'.op \in {"step", "onChange", "setValue"} => box' = box]_vars

C6_Witness ==
    /\ last.op = "step"
    /\ since.changed
    /\ svg # NoSVG
    /\ box.size = svg.size
    /\ twBox.size = svg.size

----------------------------------------------------------------------------
(* The claims about the helpers, checked under SpecUtil *)

\* the points containment is tested at: a grid of half units
Points == {Vec(Float(i, 2), Float(j, 2)) :
              i \in -4..(4 * MaxCoord + 4), j \in -4..(4 * MaxCoord + 4)}

\* C7: a rectangle no larger than the bound on either axis keeps its size
\* under clamp, and lies inside the bound: every point it contains the
\* bound contains, and its edges lie within the bound's edges.
C7_ClampInsideBound ==
    calc.op = "rect" /\ calc.pc = "clamp"
    /\ FLe(calc.r.size.x, calc.bound.size.x)
    /\ FLe(calc.r.size.y, calc.bound.size.y)
        => /\ calc.out.size = calc.r.size
           /\ \A v \in Points : contains(calc.out, v) => contains(calc.bound, v)
           /\ FLe(calc.bound.pos.x, calc.out.pos.x)
           /\ FLe(calc.bound.pos.y, calc.out.pos.y)
           /\ FLe(FAdd(calc.out.pos.x, calc.out.size.x),
                  FAdd(calc.bound.pos.x, calc.bound.size.x))
           /\ FLe(FAdd(calc.out.pos.y, calc.out.size.y),
                  FAdd(calc.bound.pos.y, calc.bound.size.y))

C7_Witness ==
    /\ calc.op = "rect" /\ calc.pc = "clamp"
    /\ FLt(calc.r.size.x, calc.bound.size.x)
    /\ FLt(F(0), calc.r.size.x)
    /\ FLe(calc.r.size.y, calc.bound.size.y)
    /\ calc.out.pos # calc.r.pos

\* C8: clampf returns min whenever min > max; otherwise min below min, max
\* above max and x in between.  So Rect::clamp puts the position at the
\* bound's position on every axis where the rectangle is larger than the bound.
C8_ClampfMinWins ==
    /\ calc.op = "clampf" /\ calc.pc = "out" =>
          IF FGt(calc.min, calc.max) THEN calc.out = calc.min
          ELSE calc.out = (IF FLt(calc.x, calc.min) THEN calc.min
                           ELSE IF FGt(calc.x, calc.max) THEN calc.max
                           ELSE calc.x)
    /\ calc.op = "rect" /\ calc.pc = "clamp" =>
          /\ FGt(calc.r.size.x, calc.bound.size.x)
                => calc.out.pos.x = calc.bound.pos.x
          /\ FGt(calc.r.size.y, calc.bound.size.y)
                => calc.out.pos.y = calc.bound.pos.y

C8_Witness ==
    /\ calc.op = "clampf" /\ calc.pc = "out"
    /\ FGt(calc.min, calc.max)
    /\ FGt(calc.x, calc.min)
    /\ calc.out = calc.min

\* C9: for any a and any positive base, eucMod(a, base) lies in [0, base)
\* and differs from a by a multiple of base; eucMod(-1, 4) is 3 and
\* eucMod(5, 4) is 1.
C9_EucModRange ==
    calc.op = "eucMod" /\ calc.pc = "out" =>
        /\ 0 <= calc.out /\ calc.out < calc.base
        /\ \E k \in -(MaxA + 1)..(MaxA + 1) : calc.a = k * calc.base + calc.out
        /\ calc.a = -1 /\ calc.base = 4 => calc.out = 3
        /\ calc.a = 5 /\ calc.base = 4 => calc.out = 1

C9_Witness ==
    /\ calc.op = "eucMod" /\ calc.pc = "out"
    /\ calc.a = -1
    /\ calc.base = 4
    /\ calc.out = 3

\* the open intervals (p, p + s) and (q, q + t) have a point in common
OpenOverlap(p, s, q, t) ==
    LET lo == IF FLt(p, q) THEN q ELSE p
        hi == IF FLt(FAdd(p, s), FAdd(q, t)) THEN FAdd(p, s) ELSE FAdd(q, t)
    IN  FLt(lo, hi)

BothOverlap(a, b) ==
    /\ OpenOverlap(a.pos.x, a.size.x, b.pos.x, b.size.x)
    /\ OpenOverlap(a.pos.y, a.size.y, b.pos.y, b.size.y)

Positive(r) == FLt(F(0), r.size.x) /\ FLt(F(0), r.size.y)

\* the right or bottom edge of a lies on the left or top edge of b
Touches(a, b) ==
    \/ FAdd(a.pos.x, a.size.x) = b.pos.x
    \/ FAdd(a.pos.y, a.size.y) = b.pos.y

\* C10, as stated: for rectangles of non-negative size, zero width or
\* height included, intersects is true iff the open intervals of the two
\* overlap on both axes.
C10_IntersectsIffOpenOverlap ==
    calc.op = "rect" /\ calc.pc = "intersects"
        => (calc.out <=> BothOverlap(calc.r, calc.bound))

\* C10, amended: for rectangles of positive width and height, intersects is
\* true iff the open intervals of the two overlap on both axes; rectangles
\* of any size that only touch along an edge or at a corner do not intersect.
C10_IntersectsPositiveSizes ==
    calc.op = "rect" /\ calc.pc = "intersects" =>
        /\ Positive(calc.r) /\ Positive(calc.bound)
              => (calc.out <=> BothOverlap(calc.r, calc.bound))
        /\ Touches(calc.r, calc.bound) \/ Touches(calc.bound, calc.r)
              => ~calc.out

C10_Witness ==
    /\ calc.op = "rect" /\ calc.pc = "intersects"
    /\ Positive(calc.r) /\ Positive(calc.bound)
    /\ calc.r.pos # calc.bound.pos
    /\ calc.out

====
